---- MODULE Spec2Model ----
(***************************************************************************)
(* Model of denshoproject/nara-download.                                   *)
(*                                                                         *)
(*   nara_get_metadata.py      the paginated harvester   (H... actions)    *)
(*   nara_download_binaries.py the download engine       (D... actions)    *)
(*                                                                         *)
(* Each script's main() is one sequential program.  It is cut into steps   *)
(* at its observable effects (a network request, a file or directory       *)
(* written, the process exit); the program counters h_pc and d_pc force    *)
(* the steps into the order of the source.                                 *)
(***************************************************************************)
EXTENDS Integers, Sequences, FiniteSets, TLC

(***************************************************************************)
(* Bounds of the model.                                                    *)
(***************************************************************************)
\* longest catalog (number of records the server holds for the query)
MaxRecords == 3
\* largest --limit (page size)
MaxLimit == 2
\* longest CSV given to the downloader
MaxRows == 3
\* same-day directory numbers that may exist before the downloader runs
MaxDirs == 3

\* query targets (NAIDs)
Targets == {1, 2}
\* number of digitalObjects a record may carry
ObjCounts == {0, 1, 2}

VARIABLES
    \* ---- harvester: inputs and environment
    api_key,            \* TRUE iff NARA_API_KEY is set and non-empty
    args_batch,         \* "none": no --batch; "missing": --batch names no file;
                        \* "file": --batch names a readable file
    batch_lines,        \* lines of the batch file, 0 is a blank line
    args_naid,          \* the --naid list, << >> when not given
    limit,              \* --limit
    catalog,            \* the hits the server holds for the query, in order
    h_fs0,              \* paths that exist before the harvester starts
    \* ---- harvester: program state
    h_pc,
    h_status,           \* process exit status, -1 while running
    naid_list,
    total_records,
    total_pages,        \* 0 until computed
    pg,                 \* the page being fetched
    data,               \* parsed body of the last successful response
    all_hits,
    extracted_rows,
    \* ---- harvester: effects
    h_requests,         \* page numbers requested from the server, in order
    h_failed,           \* page whose fetch or parse failed, 0 if none
    h_fs,               \* paths that exist: OutDir, PageFilename(..), CsvFilename
    csv_out,            \* rows written to the CSV file
    h_saves,            \* names of the snapshots written, in order
    h_report,           \* the "Retrieved total of {hits} hits across {pages}
                        \* pages" line printed after the loop, -1 before
    \* ---- downloader: inputs and environment
    csv_ok,             \* FALSE iff opening or reading --csv raises
    csv_rows,           \* data rows of the CSV: [naId, objectUrl]
    args_test,          \* --test
    args_backoff,       \* --backoff, milliseconds
    d_dirs0,            \* numbers N such that basedir/YYYYMMDD-N exists before the run
    \* ---- downloader: program state
    d_pc,
    d_status,           \* process exit status, -1 while running
    rows,
    sub_i,              \* i of find_download_subdir
    target_subdir,      \* N of the directory returned, 0 before
    d_i,                \* i of the item loop
    downloads_attempted,
    downloads_successful,
    failed_downloads,
    \* ---- downloader: effects
    d_dirs,             \* numbers N such that basedir/YYYYMMDD-N exists
    d_files,            \* file names existing in the target subdirectory
    d_visited,          \* csv_line of every item the loop has taken up, in order
    d_requests,         \* every call of download_with_progress, in order:
                        \* [csv_line, url, ok], ok its return value
    d_sleeps,           \* number of time.sleep calls
    \* ---- human_readable_size: one call
    hrs_n,              \* num_bytes, as its base-1024 digits, most significant first
    hrs_pc,             \* "idle", "call", "while", "done"
    hrs_size,           \* size, as the base-1024 digits of its integer part
    hrs_idx,            \* idx
    hrs_out,            \* what the call gave: [unit, whole]; unit "IndexError"
                        \* when it raised
    \* ---- find_download_subdir: two runs on one base directory
    r_dirs0,            \* numbers N such that basedir/YYYYMMDD-N exists before both
    r_dirs,             \* numbers N such that basedir/YYYYMMDD-N exists
    r_pc,               \* per run: "probe", "make", "done"
    r_i,                \* per run: i
    r_seen,             \* per run: the N that existed when os.path.exists(path)
                        \* last answered
    r_path,             \* per run: N of the path returned, 0 before
    \* ---- split_csv.py: one run
    s_input,            \* the data lines of --input, each the sequence of its cells
    s_parts,            \* args.parts
    s_pc,               \* "idle", "start", "loop", "done", "crashed"
    s_status,           \* exit status, -1 while running
    s_rows,             \* rows: the dicts DictReader gave
    chunk_size,         \* chunk_size
    start_idx,          \* start_idx
    part_index,         \* part_index
    s_files             \* the files written, in order: [part, lines]

hvars == << api_key, args_batch, batch_lines, args_naid, limit, catalog, h_fs0,
            h_pc, h_status, naid_list, total_records, total_pages, pg, data,
            all_hits, extracted_rows, h_requests, h_failed, h_fs, csv_out,
            h_saves, h_report >>

dvars == << csv_ok, csv_rows, args_test, args_backoff, d_dirs0,
            d_pc, d_status, rows, sub_i, target_subdir, d_i,
            downloads_attempted, downloads_successful, failed_downloads,
            d_dirs, d_files, d_visited, d_requests, d_sleeps >>

\* human_readable_size on its own, and the two racing find_download_subdir
\* split_csv.py
svars == << s_input, s_parts, s_pc, s_status, s_rows, chunk_size, start_idx,
            part_index, s_files >>

xvars == << hrs_n, hrs_pc, hrs_size, hrs_idx, hrs_out, r_dirs0, r_dirs, r_pc, r_i,
            r_seen, r_path, svars >>

vars == << hvars, dvars, xvars >>

(***************************************************************************)
(* Helpers                                                                 *)
(***************************************************************************)
RECURSIVE SeqsUpTo(_, _)
\* all sequences over S of length at most n
SeqsUpTo(S, n) ==
    IF n = 0 THEN { << >> }
    ELSE LET shorter == SeqsUpTo(S, n - 1)
         IN  shorter \cup { Append(s, x) : s \in shorter, x \in S }

RECURSIVE Flatten(_)
\* concatenation of a sequence of sequences
Flatten(ss) ==
    IF ss = << >> THEN << >> ELSE Head(ss) \o Flatten(Tail(ss))

Min(a, b) == IF a <= b THEN a ELSE b

Range(s) == { s[k] : k \in DOMAIN s }

(***************************************************************************)
(* The state of each script before it runs                                 *)
(***************************************************************************)
\* the harvester before main() runs, for given inputs
HStart(key, batch, lines, naid, lim, cat, fs0) ==
    /\ api_key = key
    /\ args_batch = batch
    /\ batch_lines = lines
    /\ args_naid = naid
    /\ limit = lim
    /\ catalog = cat
    /\ h_fs0 = fs0
    /\ h_pc = "start"
    /\ h_status = -1
    /\ naid_list = << >>
    /\ total_records = 0
    /\ total_pages = 0
    /\ pg = 0
    /\ data = [ total |-> 0, hits |-> << >> ]
    /\ all_hits = << >>
    /\ extracted_rows = << >>
    /\ h_requests = << >>
    /\ h_failed = 0
    /\ h_fs = fs0
    /\ csv_out = << >>
    /\ h_saves = << >>
    /\ h_report = [ hits |-> -1, pages |-> -1 ]

\* the harvester is not run
HIdle == HStart(TRUE, "none", << >>, << >>, 1, << >>, {})

\* the downloader before main() runs, for given inputs
DStart(ok, csv, test, backoff, dirs0) ==
    /\ csv_ok = ok
    /\ csv_rows = csv
    /\ args_test = test
    /\ args_backoff = backoff
    /\ d_dirs0 = dirs0
    /\ d_pc = "start"
    /\ d_status = -1
    /\ rows = << >>
    /\ sub_i = 0
    /\ target_subdir = 0
    /\ d_i = 0
    /\ downloads_attempted = 0
    /\ downloads_successful = 0
    /\ failed_downloads = << >>
    /\ d_dirs = dirs0
    /\ d_files = {}
    /\ d_visited = << >>
    /\ d_requests = << >>
    /\ d_sleeps = 0

\* the downloader is not run
DIdle == DStart(TRUE, << >>, FALSE, 0, {})

\* human_readable_size before it is called with num_bytes = n
HrsStart(n, pc) ==
    /\ hrs_n = n
    /\ hrs_pc = pc
    /\ hrs_size = << 0 >>
    /\ hrs_idx = -1
    /\ hrs_out = [ unit |-> "", whole |-> 0 ]

\* two runs of find_download_subdir on a base directory that holds the
\* subdirectories dirs0, before either has tested a name (i = 1)
RaceStart(dirs0, pc, i) ==
    /\ r_dirs0 = dirs0
    /\ r_dirs = dirs0
    /\ r_pc = << pc, pc >>
    /\ r_i = << i, i >>
    /\ r_seen = << {}, {} >>
    /\ r_path = << 0, 0 >>

\* the two racing runs are not modelled
RaceIdle == RaceStart({}, "done", 0)

\* split_csv.py before main() runs, for given input lines and --parts
SStart(lines, parts, pc) ==
    /\ s_input = lines
    /\ s_parts = parts
    /\ s_pc = pc
    /\ s_status = -1
    /\ s_rows = << >>
    /\ chunk_size = 0
    /\ start_idx = 0
    /\ part_index = 0
    /\ s_files = << >>

\* split_csv.py is not run
SIdle == SStart(<< >>, 0, "idle")

\* neither human_readable_size alone, nor the two racing runs, nor split_csv.py
\* are modelled
XIdle ==
    /\ HrsStart(<< 0 >>, "idle")
    /\ RaceIdle
    /\ SIdle

(***************************************************************************)
(* nara_get_metadata.py                                                    *)
(***************************************************************************)

\* One hit of the /records/search response (module docstring): the k-th record
\* of the catalog, owned by target t, with n digitalObjects.  The title and the
\* objectUrl values are tokens that tell records and objects apart.
MkHit(k, t, n) ==
    [ naId  |-> t,
      title |-> k,
      digitalObjects |->
          [ j \in 1..n |-> [ objectUrl |-> << k, j >>, objectFileSize |-> 0 ] ] ]

\* The catalogs a query for the targets T may have: every record belongs to
\* one of the targets asked for.
Catalogs(T) ==
    { [ k \in 1..Len(shape) |-> MkHit(k, shape[k][1], shape[k][2]) ] :
        shape \in SeqsUpTo(T \X ObjCounts, MaxRecords) }

\* The hits the server puts on page p for page size lim.
ServerPage(p, lim) ==
    SubSeq(catalog, (p - 1) * lim + 1, Min(p * lim, Len(catalog)))

\* The parsed body of a successful response for page p: body.hits.total.value
\* and body.hits.hits.
Response(p) ==
    [ total |-> Len(catalog), hits |-> ServerPage(p, limit) ]

\* The totals a page after the first may report: the catalog may have grown by
\* a record since page 1 was served.
LaterTotals == { Len(catalog), Len(catalog) + 1 }

\* math.floor(total / lim): the mutant of CeilDiv.
FloorDiv(total, lim) == total \div lim

\* math.ceil(total / lim) for total >= 0, lim > 0.
CeilDiv(total, lim) == (total + lim - 1) \div lim

\* datetime.now().strftime("%Y%m%d"), taken once per run
now_str == "YYYYMMDD"

\* args.outdir
OutDir == << "outdir" >>

\* The mutant of PageFilename: the page number is left out of the name.
PageFilename_no_page(p, tp) ==
    << "searchNaid-metadata-pg", 0, "of", tp, now_str, ".json" >>

\* f"searchNaid-metadata-pg{page}of{total_pages}-{now_str}.json"
PageFilename(p, tp) == << "searchNaid-metadata-pg", p, "of", tp, now_str, ".json" >>

\* f"searchNaid-binaries-{now_str}.csv"
CsvFilename == << "searchNaid-binaries", now_str, ".csv" >>

\* The mutant of RowsOfHit: only the first digitalObject of a record is kept.
RowsOfHit_first_only(hit) ==
    [ j \in 1..Min(1, Len(hit.digitalObjects)) |->
        [ naId           |-> hit.naId,
          title          |-> hit.title,
          objectUrl      |-> hit.digitalObjects[j].objectUrl,
          objectFileSize |-> hit.digitalObjects[j].objectFileSize ] ]

\* An earlier harvest of the same day into the same --outdir: its targets and
\* its number of pages.
PriorHarvest == [ naid_list |-> << 2 >>, total_pages |-> 2 ]

\* the files that harvest left in the output directory
PriorFiles ==
    { OutDir, CsvFilename }
        \cup { PageFilename(p, PriorHarvest.total_pages) :
                   p \in 1..PriorHarvest.total_pages }

\* the rows of one hit: one per digitalObject, with the record's naId and title
RowsOfHit(hit) ==
    [ j \in 1..Len(hit.digitalObjects) |->
        [ naId           |-> hit.naId,
          title          |-> hit.title,
          objectUrl      |-> hit.digitalObjects[j].objectUrl,
          objectFileSize |-> hit.digitalObjects[j].objectFileSize ] ]

\* Step 3 of main: the rows of all hits, in hit order then object order
ExtractRows(hits) ==
    Flatten([ k \in 1..Len(hits) |-> RowsOfHit(hits[k]) ])

\* the non-blank lines of the batch file, in order
NonBlank(lines) == SelectSeq(lines, LAMBDA l : l # 0)

\* sys.exit(code)
HExit(code) ==
    /\ h_pc' = "exit"
    /\ h_status' = code

HInputs == << api_key, args_batch, batch_lines, args_naid, limit, catalog, h_fs0 >>

\* api_key is empty: log_error, sys.exit(1)
HNoKey ==
    /\ h_pc = "start"
    /\ ~api_key
    /\ HExit(1)
    /\ UNCHANGED << dvars, xvars >>
    /\ UNCHANGED << h_saves, h_report >>
    /\ UNCHANGED << HInputs, naid_list, total_records, total_pages, pg, data,
                    all_hits, extracted_rows, h_requests, h_failed, h_fs, csv_out >>

\* api_key is set: the session is created and os.makedirs(outdir, exist_ok=True)
HMakeOutdir ==
    /\ h_pc = "start"
    /\ api_key
    /\ h_fs' = h_fs \cup { OutDir }
    /\ h_pc' = "naids"
    /\ UNCHANGED << dvars, xvars >>
    /\ UNCHANGED << h_saves, h_report >>
    /\ UNCHANGED << HInputs, h_status, naid_list, total_records, total_pages, pg,
                    data, all_hits, extracted_rows, h_requests, h_failed, csv_out >>

\* --batch names a path that is no file: log_error, sys.exit(1)
HBatchMissing ==
    /\ h_pc = "naids"
    /\ args_batch = "missing"
    /\ HExit(1)
    /\ UNCHANGED << dvars, xvars >>
    /\ UNCHANGED << h_saves, h_report >>
    /\ UNCHANGED << HInputs, naid_list, total_records, total_pages, pg, data,
                    all_hits, extracted_rows, h_requests, h_failed, h_fs, csv_out >>

\* --batch names a file: its stripped non-empty lines become naid_list
HBatchLoad ==
    /\ h_pc = "naids"
    /\ args_batch = "file"
    /\ naid_list' = NonBlank(batch_lines)
    /\ pg' = 1
    /\ h_pc' = "page1"
    /\ UNCHANGED << dvars, xvars >>
    /\ UNCHANGED << h_saves, h_report >>
    /\ UNCHANGED << HInputs, h_status, total_records, total_pages, data,
                    all_hits, extracted_rows, h_requests, h_failed, h_fs, csv_out >>

\* neither --batch nor --naid: parser.error exits with status 2
HNoTargets ==
    /\ h_pc = "naids"
    /\ args_batch = "none"
    /\ args_naid = << >>
    /\ HExit(2)
    /\ UNCHANGED << dvars, xvars >>
    /\ UNCHANGED << h_saves, h_report >>
    /\ UNCHANGED << HInputs, naid_list, total_records, total_pages, pg, data,
                    all_hits, extracted_rows, h_requests, h_failed, h_fs, csv_out >>

\* no --batch: naid_list = args.naid
HUseNaid ==
    /\ h_pc = "naids"
    /\ args_batch = "none"
    /\ args_naid # << >>
    /\ naid_list' = args_naid
    /\ pg' = 1
    /\ h_pc' = "page1"
    /\ UNCHANGED << dvars, xvars >>
    /\ UNCHANGED << h_saves, h_report >>
    /\ UNCHANGED << HInputs, h_status, total_records, total_pages, data,
                    all_hits, extracted_rows, h_requests, h_failed, h_fs, csv_out >>

\* page 1: session.get, raise_for_status or the JSON parse raises:
\* log_error, sys.exit(1)
HPage1Fail ==
    /\ h_pc = "page1"
    /\ h_requests' = Append(h_requests, pg)
    /\ h_failed' = pg
    /\ HExit(1)
    /\ UNCHANGED << dvars, xvars >>
    /\ UNCHANGED << h_saves, h_report >>
    /\ UNCHANGED << HInputs, naid_list, total_records, total_pages, pg, data,
                    all_hits, extracted_rows, h_fs, csv_out >>

\* The mutant of HPage1Empty: the total == 0 test is missing.
HPage1Empty_no_test ==
    /\ h_pc = "page1"
    /\ Response(pg).total = 0
    /\ h_requests' = Append(h_requests, pg)
    /\ data' = Response(pg)
    /\ total_records' = Response(pg).total
    /\ total_pages' = CeilDiv(Response(pg).total, limit)
    /\ h_pc' = "save"
    /\ UNCHANGED << dvars, xvars >>
    /\ UNCHANGED << h_saves, h_report >>
    /\ UNCHANGED << HInputs, h_status, naid_list, pg, all_hits, extracted_rows,
                    h_failed, h_fs, csv_out >>

\* page 1 is retrieved and parsed and reports total 0: sys.exit(0)
HPage1Empty ==
    /\ h_pc = "page1"
    /\ Response(pg).total = 0
    /\ h_requests' = Append(h_requests, pg)
    /\ data' = Response(pg)
    /\ total_records' = Response(pg).total
    /\ HExit(0)
    /\ UNCHANGED << dvars, xvars >>
    /\ UNCHANGED << h_saves, h_report >>
    /\ UNCHANGED << HInputs, naid_list, total_pages, pg, all_hits, extracted_rows,
                    h_failed, h_fs, csv_out >>

\* page 1 is retrieved and parsed and reports total > 0: total_pages is computed
HPage1Ok ==
    /\ h_pc = "page1"
    /\ Response(pg).total # 0
    /\ h_requests' = Append(h_requests, pg)
    /\ data' = Response(pg)
    /\ total_records' = Response(pg).total
    /\ total_pages' = CeilDiv(Response(pg).total, limit)
    /\ h_pc' = "save"
    /\ UNCHANGED << dvars, xvars >>
    /\ UNCHANGED << h_saves, h_report >>
    /\ UNCHANGED << HInputs, h_status, naid_list, pg, all_hits, extracted_rows,
                    h_failed, h_fs, csv_out >>

\* The mutant of HSave: the page is not written.
HSave_skip ==
    /\ h_pc = "save"
    /\ h_pc' = "extend"
    /\ UNCHANGED << dvars, xvars >>
    /\ UNCHANGED << h_saves, h_report >>
    /\ UNCHANGED << HInputs, h_status, naid_list, total_records, total_pages, pg,
                    data, all_hits, extracted_rows, h_requests, h_failed, h_fs,
                    csv_out >>

\* json.dump of the page just retrieved into its snapshot file
HSave ==
    /\ h_pc = "save"
    /\ h_fs' = h_fs \cup { PageFilename(pg, total_pages) }
    /\ h_saves' = Append(h_saves, PageFilename(pg, total_pages))
    /\ h_pc' = "extend"
    /\ UNCHANGED << dvars, xvars >>
    /\ UNCHANGED << h_report >>
    /\ UNCHANGED << HInputs, h_status, naid_list, total_records, total_pages, pg,
                    data, all_hits, extracted_rows, h_requests, h_failed, csv_out >>

\* all_hits.extend(hits of the page just saved); the loop moves to the next page
HExtend ==
    /\ h_pc = "extend"
    /\ all_hits' = all_hits \o data.hits
    /\ pg' = pg + 1
    /\ h_pc' = "loop"
    /\ UNCHANGED << dvars, xvars >>
    /\ UNCHANGED << h_saves, h_report >>
    /\ UNCHANGED << HInputs, h_status, naid_list, total_records, total_pages,
                    data, extracted_rows, h_requests, h_failed, h_fs, csv_out >>

\* The mutant of HFetchOk: the page count is recomputed from the total each
\* page reports.
HFetchOk_recompute ==
    /\ h_pc = "loop"
    /\ pg <= total_pages
    /\ h_requests' = Append(h_requests, pg)
    /\ \E t \in LaterTotals :
           /\ data' = [ total |-> t, hits |-> ServerPage(pg, limit) ]
           /\ total_records' = t
           /\ total_pages' = CeilDiv(t, limit)
    /\ h_pc' = "save"
    /\ UNCHANGED << dvars, xvars >>
    /\ UNCHANGED << h_saves, h_report >>
    /\ UNCHANGED << HInputs, h_status, naid_list, pg,
                    all_hits, extracted_rows, h_failed, h_fs, csv_out >>

\* for pg in range(2, total_pages + 1): the page is retrieved and parsed.  Only
\* body.hits.hits of data_pg is read; the total the page reports is kept in
\* data_pg and in the snapshot, and nothing is computed from it.
HFetchOk ==
    /\ h_pc = "loop"
    /\ pg <= total_pages
    /\ h_requests' = Append(h_requests, pg)
    /\ \E t \in LaterTotals :
           data' = [ total |-> t, hits |-> ServerPage(pg, limit) ]
    /\ h_pc' = "save"
    /\ UNCHANGED << dvars, xvars >>
    /\ UNCHANGED << h_saves, h_report >>
    /\ UNCHANGED << HInputs, h_status, naid_list, total_records, total_pages, pg,
                    all_hits, extracted_rows, h_failed, h_fs, csv_out >>

\* The mutant of HFetchFail: continue instead of break.
HFetchFail_continue ==
    /\ h_pc = "loop"
    /\ pg <= total_pages
    /\ h_requests' = Append(h_requests, pg)
    /\ h_failed' = IF h_failed = 0 THEN pg ELSE h_failed
    /\ pg' = pg + 1
    /\ UNCHANGED << dvars, xvars >>
    /\ UNCHANGED << h_saves, h_report >>
    /\ UNCHANGED << HInputs, h_pc, h_status, naid_list, total_records, total_pages,
                    data, all_hits, extracted_rows, h_fs, csv_out >>

\* the request or the parse of page pg raises: log_error, break
HFetchFail ==
    /\ h_pc = "loop"
    /\ pg <= total_pages
    /\ h_requests' = Append(h_requests, pg)
    /\ h_failed' = pg
    /\ h_pc' = "extract"
    /\ UNCHANGED << dvars, xvars >>
    /\ UNCHANGED << h_saves, h_report >>
    /\ UNCHANGED << HInputs, h_status, naid_list, total_records, total_pages, pg,
                    data, all_hits, extracted_rows, h_fs, csv_out >>

\* range(2, total_pages + 1) is exhausted
HLoopEnd ==
    /\ h_pc = "loop"
    /\ pg > total_pages
    /\ h_pc' = "extract"
    /\ UNCHANGED << dvars, xvars >>
    /\ UNCHANGED << h_saves, h_report >>
    /\ UNCHANGED << HInputs, h_status, naid_list, total_records, total_pages, pg,
                    data, all_hits, extracted_rows, h_requests, h_failed, h_fs,
                    csv_out >>

\* after the loop the totals are printed (line 265); Step 3: the rows are
\* extracted from all_hits
HExtract ==
    /\ h_pc = "extract"
    /\ h_report' = [ hits |-> Len(all_hits), pages |-> total_pages ]
    /\ extracted_rows' = ExtractRows(all_hits)
    /\ h_pc' = "csv"
    /\ UNCHANGED << dvars, xvars >>
    /\ UNCHANGED << h_saves >>
    /\ UNCHANGED << HInputs, h_status, naid_list, total_records, total_pages, pg,
                    data, all_hits, h_requests, h_failed, h_fs, csv_out >>

\* Step 4: the CSV is written; main returns (exit status 0)
HWriteCsv ==
    /\ h_pc = "csv"
    /\ csv_out' = extracted_rows
    /\ h_fs' = h_fs \cup { CsvFilename }
    /\ HExit(0)
    /\ UNCHANGED << dvars, xvars >>
    /\ UNCHANGED << h_saves, h_report >>
    /\ UNCHANGED << HInputs, naid_list, total_records, total_pages, pg, data,
                    all_hits, extracted_rows, h_requests, h_failed >>

\* the targets the run will query, by the rules of lines 161-177
QueryTargets(batch, lines, naid) ==
    IF batch = "file" THEN Range(NonBlank(lines))
    ELSE IF batch = "none" THEN Range(naid)
    ELSE {}

\* the command lines and environments of the harvester
HConfigs ==
    { [ key |-> FALSE, batch |-> "file",    lines |-> << 1, 0, 2 >>, naid |-> << >> ],
      [ key |-> TRUE,  batch |-> "missing", lines |-> << >>,         naid |-> << >> ],
      [ key |-> TRUE,  batch |-> "none",    lines |-> << >>,         naid |-> << >> ],
      [ key |-> TRUE,  batch |-> "none",    lines |-> << >>,         naid |-> << 1 >> ],
      [ key |-> TRUE,  batch |-> "file",    lines |-> << >>,         naid |-> << >> ],
      [ key |-> TRUE,  batch |-> "file",    lines |-> << 1, 0, 2 >>, naid |-> << 1 >> ] }

\* a run that stops before its first request never sees the catalog
ReachesFetch(c) ==
    c.key /\ (c.batch = "file" \/ (c.batch = "none" /\ c.naid # << >>))

InitH ==
    \E c \in HConfigs, lim \in 1..MaxLimit, fs0 \in { {}, { OutDir }, PriorFiles } :
        \E cat \in IF ReachesFetch(c)
                   THEN Catalogs(QueryTargets(c.batch, c.lines, c.naid))
                   ELSE { << >> } :
            /\ HStart(c.key, c.batch, c.lines, c.naid, lim, cat, fs0)
            /\ DIdle
            /\ XIdle

NextH ==
    \/ HNoKey
    \/ HMakeOutdir
    \/ HBatchMissing
    \/ HBatchLoad
    \/ HNoTargets
    \/ HUseNaid
    \/ HPage1Fail
    \/ HPage1Empty
    \/ HPage1Ok
    \/ HSave
    \/ HExtend
    \/ HFetchOk
    \/ HFetchFail
    \/ HLoopEnd
    \/ HExtract
    \/ HWriteCsv

(***************************************************************************)
(* nara_download_binaries.py                                               *)
(***************************************************************************)

\* The objectUrl values of the model: absent or empty; a URL whose path has a
\* basename; a URL whose path ends in "/"; a URL urlsplit rejects (an
\* unmatched "[" in the host: ValueError "Invalid IPv6 URL").
Urls == { "", "http://x/a.bin", "http://x/", "http://[x" }

\* urlsplit(url) raises ValueError
UrlsplitRaises(url) == url = "http://[x"

\* os.path.basename(urlsplit(url).path)
Basename(url) ==
    CASE url = "http://x/a.bin" -> "a.bin"
      [] url = "http://y/a.bin" -> "a.bin"
      [] url = "http://x/"      -> ""
      [] OTHER                  -> ""

\* lines 214-217: the basename of the URL's path, f"file_{i}" when that is
\* empty, prefixed by the record's naId
Filename(item, i) ==
    IF Basename(item.objectUrl) = ""
    THEN << item.naId, "file_", i >>
    ELSE << item.naId, Basename(item.objectUrl), 0 >>

\* the data rows a CSV may hold
CsvRowTypes == [ naId : Targets, objectUrl : Urls ]

\* The mutant of ParseRows: enumerate(reader) without start=1.
ParseRows_from_zero(csv) ==
    [ k \in 1..Len(csv) |->
        [ csv_line  |-> k - 1,
          naId      |-> csv[k].naId,
          objectUrl |-> csv[k].objectUrl ] ]

\* lines 153-168: the rows of the CSV with their 1-based line number
ParseRows(csv) ==
    [ k \in 1..Len(csv) |->
        [ csv_line  |-> k,
          naId      |-> csv[k].naId,
          objectUrl |-> csv[k].objectUrl ] ]

\* one call download_with_progress(session, url, dest_path) and what it returned
Transfer(item, ok) ==
    [ csv_line |-> item.csv_line, url |-> item.objectUrl, ok |-> ok ]

\* sys.exit(code), or the interpreter ending
DExit(code) ==
    /\ d_pc' = "exit"
    /\ d_status' = code

DInputs == << csv_ok, csv_rows, args_test, args_backoff, d_dirs0 >>

\* The mutant of Backoff: the test backoff_seconds > 0 is missing.
Backoff_always == d_sleeps + 1

\* time.sleep(backoff_seconds) when backoff_seconds > 0
Backoff == IF args_backoff > 0 THEN d_sleeps + 1 ELSE d_sleeps

\* reading the CSV raises: log_error, sys.exit(1)
DReadFail ==
    /\ d_pc = "start"
    /\ ~csv_ok
    /\ DExit(1)
    /\ UNCHANGED << hvars, xvars >>
    /\ UNCHANGED << DInputs, rows, sub_i, target_subdir, d_i, downloads_attempted,
                    downloads_successful, failed_downloads, d_dirs, d_files,
                    d_visited, d_requests, d_sleeps >>

\* the CSV has no data rows: sys.exit(0)
DNoItems ==
    /\ d_pc = "start"
    /\ csv_ok
    /\ rows' = ParseRows(csv_rows)
    /\ Len(rows') = 0
    /\ DExit(0)
    /\ UNCHANGED << hvars, xvars >>
    /\ UNCHANGED << DInputs, sub_i, target_subdir, d_i, downloads_attempted,
                    downloads_successful, failed_downloads, d_dirs, d_files,
                    d_visited, d_requests, d_sleeps >>

\* --test: the statistics are printed, sys.exit(0)
DTestMode ==
    /\ d_pc = "start"
    /\ csv_ok
    /\ rows' = ParseRows(csv_rows)
    /\ Len(rows') # 0
    /\ args_test
    /\ DExit(0)
    /\ UNCHANGED << hvars, xvars >>
    /\ UNCHANGED << DInputs, sub_i, target_subdir, d_i, downloads_attempted,
                    downloads_successful, failed_downloads, d_dirs, d_files,
                    d_visited, d_requests, d_sleeps >>

\* the CSV is parsed and main calls find_download_subdir
DParsed ==
    /\ d_pc = "start"
    /\ csv_ok
    /\ rows' = ParseRows(csv_rows)
    /\ Len(rows') # 0
    /\ ~args_test
    /\ sub_i' = 1
    /\ d_pc' = "subdir"
    /\ UNCHANGED << hvars, xvars >>
    /\ UNCHANGED << DInputs, d_status, target_subdir, d_i, downloads_attempted,
                    downloads_successful, failed_downloads, d_dirs, d_files,
                    d_visited, d_requests, d_sleeps >>

\* find_download_subdir: os.path.exists(path) holds, i += 1
DSubdirNext ==
    /\ d_pc = "subdir"
    /\ sub_i \in d_dirs
    /\ sub_i' = sub_i + 1
    /\ UNCHANGED << hvars, xvars >>
    /\ UNCHANGED << DInputs, d_pc, d_status, rows, target_subdir, d_i,
                    downloads_attempted, downloads_successful, failed_downloads,
                    d_dirs, d_files, d_visited, d_requests, d_sleeps >>

\* The mutant of DSubdirMake: the first name is taken whether it exists or not.
DSubdirMake_reuse ==
    /\ d_pc = "subdir"
    /\ d_dirs' = d_dirs \cup { sub_i }
    /\ target_subdir' = sub_i
    /\ d_i' = 1
    /\ d_pc' = "loop"
    /\ UNCHANGED << hvars, xvars >>
    /\ UNCHANGED << DInputs, d_status, rows, sub_i, downloads_attempted,
                    downloads_successful, failed_downloads, d_files, d_visited,
                    d_requests, d_sleeps >>

\* find_download_subdir: the path does not exist, os.makedirs(path), return;
\* main sets its counters and enters the item loop
DSubdirMake ==
    /\ d_pc = "subdir"
    /\ sub_i \notin d_dirs
    /\ d_dirs' = d_dirs \cup { sub_i }
    /\ target_subdir' = sub_i
    /\ d_i' = 1
    /\ d_pc' = "loop"
    /\ UNCHANGED << hvars, xvars >>
    /\ UNCHANGED << DInputs, d_status, rows, sub_i, downloads_attempted,
                    downloads_successful, failed_downloads, d_files, d_visited,
                    d_requests, d_sleeps >>

\* The mutant of DSkip: the item without URL is counted as an attempt.
DSkip_counted ==
    /\ d_pc = "loop"
    /\ d_i <= Len(rows)
    /\ rows[d_i].objectUrl = ""
    /\ d_visited' = Append(d_visited, rows[d_i].csv_line)
    /\ downloads_attempted' = downloads_attempted + 1
    /\ d_i' = d_i + 1
    /\ UNCHANGED << hvars, xvars >>
    /\ UNCHANGED << DInputs, d_pc, d_status, rows, sub_i, target_subdir,
                    downloads_successful, failed_downloads,
                    d_dirs, d_files, d_requests, d_sleeps >>

\* the item has no objectUrl: log_error, continue
DSkip ==
    /\ d_pc = "loop"
    /\ d_i <= Len(rows)
    /\ rows[d_i].objectUrl = ""
    /\ d_visited' = Append(d_visited, rows[d_i].csv_line)
    /\ d_i' = d_i + 1
    /\ UNCHANGED << hvars, xvars >>
    /\ UNCHANGED << DInputs, d_pc, d_status, rows, sub_i, target_subdir,
                    downloads_attempted, downloads_successful, failed_downloads,
                    d_dirs, d_files, d_requests, d_sleeps >>

\* urlsplit(url) raises ValueError at line 214, outside any try: the
\* exception leaves main and the interpreter exits with status 1
DUrlError ==
    /\ d_pc = "loop"
    /\ d_i <= Len(rows)
    /\ rows[d_i].objectUrl # ""
    /\ UrlsplitRaises(rows[d_i].objectUrl)
    /\ d_visited' = Append(d_visited, rows[d_i].csv_line)
    /\ d_pc' = "crashed"
    /\ d_status' = 1
    /\ UNCHANGED << hvars, xvars >>
    /\ UNCHANGED << DInputs, rows, sub_i, target_subdir, d_i, downloads_attempted,
                    downloads_successful, failed_downloads, d_dirs, d_files,
                    d_requests, d_sleeps >>

\* lines 214-222: the file name is derived, downloads_attempted += 1
DBegin ==
    /\ d_pc = "loop"
    /\ d_i <= Len(rows)
    /\ rows[d_i].objectUrl # ""
    /\ ~UrlsplitRaises(rows[d_i].objectUrl)
    /\ d_visited' = Append(d_visited, rows[d_i].csv_line)
    /\ downloads_attempted' = downloads_attempted + 1
    /\ d_pc' = "transfer"
    /\ UNCHANGED << hvars, xvars >>
    /\ UNCHANGED << DInputs, d_status, rows, sub_i, target_subdir, d_i,
                    downloads_successful, failed_downloads, d_dirs, d_files,
                    d_requests, d_sleeps >>

\* download_with_progress returns True: the file is written
DTransferOk ==
    /\ d_pc = "transfer"
    /\ d_requests' = Append(d_requests, Transfer(rows[d_i], TRUE))
    /\ d_files' = d_files \cup { Filename(rows[d_i], d_i) }
    /\ downloads_successful' = downloads_successful + 1
    /\ d_sleeps' = Backoff
    /\ d_i' = d_i + 1
    /\ d_pc' = "loop"
    /\ UNCHANGED << hvars, xvars >>
    /\ UNCHANGED << DInputs, d_status, rows, sub_i, target_subdir,
                    downloads_attempted, failed_downloads, d_dirs, d_visited >>

\* download_with_progress catches an exception and returns False: the item is
\* added to failed_downloads; the destination file exists if the exception
\* came after open()
DTransferFail ==
    /\ d_pc = "transfer"
    /\ d_requests' = Append(d_requests, Transfer(rows[d_i], FALSE))
    /\ \E opened \in BOOLEAN :
           d_files' = IF opened THEN d_files \cup { Filename(rows[d_i], d_i) }
                      ELSE d_files
    /\ failed_downloads' =
           Append(failed_downloads, << rows[d_i].csv_line, rows[d_i].objectUrl >>)
    /\ d_sleeps' = Backoff
    /\ d_i' = d_i + 1
    /\ d_pc' = "loop"
    /\ UNCHANGED << hvars, xvars >>
    /\ UNCHANGED << DInputs, d_status, rows, sub_i, target_subdir,
                    downloads_attempted, downloads_successful, d_dirs, d_visited >>

\* the item loop is over: the summary and the failure list are printed
DSummary ==
    /\ d_pc = "loop"
    /\ d_i > Len(rows)
    /\ DExit(0)
    /\ UNCHANGED << hvars, xvars >>
    /\ UNCHANGED << DInputs, rows, sub_i, target_subdir, d_i, downloads_attempted,
                    downloads_successful, failed_downloads, d_dirs, d_files,
                    d_visited, d_requests, d_sleeps >>

\* the values of --backoff of the model, in milliseconds
Backoffs == { 0, 250 }

\* the runs of the item loop: every CSV of the model, in a download directory
\* that is empty or holds today's first subdirectory
InitD ==
    \E ok \in BOOLEAN, test \in BOOLEAN, backoff \in Backoffs,
       dirs0 \in { {}, { 1 } } :
        \E csv \in IF ok THEN SeqsUpTo(CsvRowTypes, MaxRows) ELSE { << >> } :
            /\ DStart(ok, csv, test, backoff, dirs0)
            /\ HIdle
            /\ XIdle

\* the runs of find_download_subdir: every set of existing same-day entries
\* of the model, with a CSV of at most one row
InitAlloc ==
    \E ok \in BOOLEAN, test \in BOOLEAN, backoff \in Backoffs,
       dirs0 \in SUBSET (1..MaxDirs) :
        \E csv \in IF ok THEN SeqsUpTo(CsvRowTypes, 1) ELSE { << >> } :
            /\ DStart(ok, csv, test, backoff, dirs0)
            /\ HIdle
            /\ XIdle

\* the runs that decide the file names: CSVs of at most two rows whose URLs
\* include two different URLs with the same basename
InitNames ==
    \E ok \in BOOLEAN, test \in BOOLEAN, dirs0 \in { {}, { 1 } } :
        \E csv \in IF ok
                   THEN SeqsUpTo([ naId : Targets,
                                   objectUrl : Urls \cup { "http://y/a.bin" } ], 2)
                   ELSE { << >> } :
            /\ DStart(ok, csv, test, 0, dirs0)
            /\ HIdle
            /\ XIdle

NextD ==
    \/ DReadFail
    \/ DNoItems
    \/ DTestMode
    \/ DParsed
    \/ DSubdirNext
    \/ DSubdirMake
    \/ DSkip
    \/ DUrlError
    \/ DBegin
    \/ DTransferOk
    \/ DTransferFail
    \/ DSummary

(***************************************************************************)
(* Specifications: each script is run on its own.                          *)
(***************************************************************************)
\* nara_get_metadata.py, for every input of the model
SpecH == InitH /\ [][NextH]_vars

\* nara_download_binaries.py, for every input of the model
SpecD == InitD /\ [][NextD]_vars

\* nara_download_binaries.py, for every state of the download directory
SpecAlloc == InitAlloc /\ [][NextD]_vars

\* nara_download_binaries.py, for CSVs with URLs that share a basename
SpecNames == InitNames /\ [][NextD]_vars

--------------------------------------------------------------------------------
\* human_readable_size(num_bytes).  num_bytes is held as its base-1024 digits,
\* most significant first, so that sizes up to 1024^MaxDigits can be told
\* apart: a size is below 1024 when it has one digit.

MaxDigits == 10

\* units = ["K","M","G","T","P","E","Z","Y"]
Units == << "K", "M", "G", "T", "P", "E", "Z", "Y" >>

\* the sizes of the model: the one-digit sizes 0, 1, 999, 1023, and the sizes
\* of 2..MaxDigits digits whose first digit is 1 or 1023 and whose other
\* digits are 0 or 1023
Sizes ==
    { << d >> : d \in { 0, 1, 999, 1023 } }
        \cup UNION { { << lead >> \o rest :
                          lead \in { 1, 1023 }, rest \in [ 1..m -> { 0, 1023 } ] } :
                      m \in 1..(MaxDigits - 1) }

\* float(num_bytes) rounds to 53 significant bits, to nearest, ties to even:
\* a size whose 54 leading bits are all 1 becomes the next power of 1024
RoundsUp(n) ==
    /\ Len(n) >= 6
    /\ \A k \in 1..5 : n[k] = 1023
    /\ n[6] >= 960

\* float(num_bytes), by the digits of its integer part
FloatOf(n) ==
    IF RoundsUp(n) THEN << 1 >> \o [ k \in 1..Len(n) |-> 0 ] ELSE n

\* size >= 1024
AtLeast1024(size) == Len(size) >= 2

\* size / 1024.0, by the digits of its integer part
DivideBy1024(size) == SubSeq(size, 1, Len(size) - 1)

\* the loop test: size >= 1024 and idx < len(units)
HrsWhile == AtLeast1024(hrs_size) /\ hrs_idx < Len(Units)

HrsFrame ==
    UNCHANGED << hvars, dvars, r_dirs0, r_dirs, r_pc, r_i, r_seen, r_path, svars >>

\* if num_bytes < 1024: return f"{num_bytes}B"
HrsBytes ==
    /\ hrs_pc = "call"
    /\ ~AtLeast1024(hrs_n)
    /\ hrs_out' = [ unit |-> "B", whole |-> hrs_n[1] ]
    /\ hrs_pc' = "done"
    /\ HrsFrame
    /\ UNCHANGED << hrs_n, hrs_size, hrs_idx >>

\* size = float(num_bytes); idx = -1
HrsFloat ==
    /\ hrs_pc = "call"
    /\ AtLeast1024(hrs_n)
    /\ hrs_size' = FloatOf(hrs_n)
    /\ hrs_idx' = -1
    /\ hrs_pc' = "while"
    /\ HrsFrame
    /\ UNCHANGED << hrs_n, hrs_out >>

\* the loop body: size /= 1024.0; idx += 1
HrsDivide ==
    /\ hrs_pc = "while"
    /\ HrsWhile
    /\ hrs_size' = DivideBy1024(hrs_size)
    /\ hrs_idx' = hrs_idx + 1
    /\ HrsFrame
    /\ UNCHANGED << hrs_n, hrs_pc, hrs_out >>

\* return f"{size:.1f}{units[idx]}", idx a valid index of units (a negative
\* idx counts from the end of the list)
HrsReturn ==
    /\ hrs_pc = "while"
    /\ ~HrsWhile
    /\ hrs_idx < Len(Units)
    /\ hrs_idx >= -Len(Units)
    /\ hrs_out' = [ unit  |-> IF hrs_idx >= 0 THEN Units[hrs_idx + 1]
                                             ELSE Units[Len(Units) + hrs_idx + 1],
                    whole |-> hrs_size[1] ]
    /\ hrs_pc' = "done"
    /\ HrsFrame
    /\ UNCHANGED << hrs_n, hrs_size, hrs_idx >>

\* units[idx] with idx = len(units): IndexError leaves the function
HrsIndexError ==
    /\ hrs_pc = "while"
    /\ ~HrsWhile
    /\ hrs_idx >= Len(Units)
    /\ hrs_out' = [ unit |-> "IndexError", whole |-> 0 ]
    /\ hrs_pc' = "done"
    /\ HrsFrame
    /\ UNCHANGED << hrs_n, hrs_size, hrs_idx >>

InitSize ==
    \E n \in Sizes :
        /\ HrsStart(n, "call")
        /\ RaceIdle
        /\ SIdle
        /\ HIdle
        /\ DIdle

NextSize ==
    \/ HrsBytes
    \/ HrsFloat
    \/ HrsDivide
    \/ HrsReturn
    \/ HrsIndexError

\* human_readable_size called once
SpecSize == InitSize /\ [][NextSize]_vars

--------------------------------------------------------------------------------
\* Two download runs started on the same base directory on the same day: each
\* calls find_download_subdir, and os.path.exists and os.makedirs are separate
\* system calls, so the calls of the two runs interleave.

Runs == { 1, 2 }

RaceFrame ==
    UNCHANGED << hvars, dvars, hrs_n, hrs_pc, hrs_size, hrs_idx, hrs_out, svars >>

\* run r: os.path.exists(path) is true, i += 1
RExists(r) ==
    /\ r_pc[r] = "probe"
    /\ r_i[r] \in r_dirs
    /\ r_i' = [ r_i EXCEPT ![r] = @ + 1 ]
    /\ RaceFrame
    /\ UNCHANGED << r_dirs0, r_dirs, r_pc, r_seen, r_path >>

\* The mutant of RAbsent: the name is taken without the os.path.exists test.
RAbsent_untested(r) ==
    /\ r_pc[r] = "probe"
    /\ r_seen' = [ r_seen EXCEPT ![r] = r_dirs ]
    /\ r_pc' = [ r_pc EXCEPT ![r] = "make" ]
    /\ RaceFrame
    /\ UNCHANGED << r_dirs0, r_dirs, r_i, r_path >>

\* run r: os.path.exists(path) is false; what existed at that moment is noted
RAbsent(r) ==
    /\ r_pc[r] = "probe"
    /\ r_i[r] \notin r_dirs
    /\ r_seen' = [ r_seen EXCEPT ![r] = r_dirs ]
    /\ r_pc' = [ r_pc EXCEPT ![r] = "make" ]
    /\ RaceFrame
    /\ UNCHANGED << r_dirs0, r_dirs, r_i, r_path >>

\* run r: os.makedirs(path, exist_ok=True) succeeds whether or not the other
\* run has made the directory since the test; return path
RMake(r) ==
    /\ r_pc[r] = "make"
    /\ r_dirs' = r_dirs \cup { r_i[r] }
    /\ r_path' = [ r_path EXCEPT ![r] = r_i[r] ]
    /\ r_pc' = [ r_pc EXCEPT ![r] = "done" ]
    /\ RaceFrame
    /\ UNCHANGED << r_dirs0, r_i, r_seen >>

InitRace ==
    \E dirs0 \in SUBSET (1..MaxDirs) :
        /\ RaceStart(dirs0, "probe", 1)
        /\ HrsStart(<< 0 >>, "idle")
        /\ SIdle
        /\ HIdle
        /\ DIdle

NextRace ==
    \E r \in Runs :
        \/ RExists(r)
        \/ RAbsent(r)
        \/ RMake(r)

\* two runs of find_download_subdir on one base directory
SpecRace == InitRace /\ [][NextRace]_vars

--------------------------------------------------------------------------------
\* split_csv.py.  The k-th data line of the input is a sequence of cells, each
\* holding k, so that a line is told from every other; a line may have fewer
\* or more cells than the header has columns.

MaxInputRows == 4
MaxParts == 4

\* reader.fieldnames: the header columns
fieldnames == << "naId", "objectUrl" >>

\* None, the value DictReader gives a column a short line has no cell for
NoneValue == 0

\* '', what the csv writer puts for None
EmptyString == -1

\* the data lines of the model: line k has 1..len(fieldnames)+1 cells
InputLines ==
    { [ k \in 1..Len(counts) |-> [ j \in 1..counts[k] |-> k ] ] :
        counts \in SeqsUpTo(1..(Len(fieldnames) + 1), MaxInputRows) }

\* csv.DictReader on one line: the cells by column, None (restval) for the
\* columns a short line lacks, the cells beyond the header under the key None
\* (restkey)
DictRead(line) ==
    [ fields |-> [ j \in 1..Len(fieldnames) |->
                     IF j <= Len(line) THEN line[j] ELSE NoneValue ],
      rest   |-> SubSeq(line, Len(fieldnames) + 1, Len(line)) ]

\* rows = list(reader)
ReadRows(lines) == [ k \in 1..Len(lines) |-> DictRead(lines[k]) ]

\* DictWriter._dict_to_list raises ValueError for a dict with a key that is
\* not in fieldnames: the key None of a long line
WriteRaises(row) == row.rest # << >>

\* the line the writer puts for a dict: its values by column, '' for None
DictWrite(row) ==
    [ j \in 1..Len(fieldnames) |->
        IF row.fields[j] = NoneValue THEN EmptyString ELSE row.fields[j] ]

\* rows[start:end], a slice that stops at the end of the list
Slice(rws, start, end) ==
    IF start >= Min(end, Len(rws)) THEN << >>
    ELSE SubSeq(rws, start + 1, Min(end, Len(rws)))

\* end_idx of the part at hand
EndIdx == IF part_index = s_parts THEN Len(s_rows) ELSE start_idx + chunk_size

\* chunk = rows[start_idx:end_idx]
Chunk == Slice(s_rows, start_idx, EndIdx)

\* the dicts of a chunk that are written before writerows meets one it raises on
RECURSIVE WritableHead(_)
WritableHead(chunk) ==
    IF chunk = << >> \/ WriteRaises(chunk[1]) THEN << >>
    ELSE << chunk[1] >> \o WritableHead(Tail(chunk))

\* the lines written for a sequence of dicts
WriteRows(chunk) == [ k \in 1..Len(chunk) |-> DictWrite(chunk[k]) ]

SFrame == UNCHANGED << hvars, dvars, hrs_n, hrs_pc, hrs_size, hrs_idx, hrs_out,
                       r_dirs0, r_dirs, r_pc, r_i, r_seen, r_path >>

\* total_rows == 0: "No rows to split", return
SNoRows ==
    /\ s_pc = "start"
    /\ s_rows' = ReadRows(s_input)
    /\ Len(s_input) = 0
    /\ s_pc' = "done"
    /\ s_status' = 0
    /\ SFrame
    /\ UNCHANGED << s_input, s_parts, chunk_size, start_idx, part_index, s_files >>

\* args.parts < 1: "Number of parts must be at least 1", return
SBadParts ==
    /\ s_pc = "start"
    /\ s_rows' = ReadRows(s_input)
    /\ Len(s_input) # 0
    /\ s_parts < 1
    /\ s_pc' = "done"
    /\ s_status' = 0
    /\ SFrame
    /\ UNCHANGED << s_input, s_parts, chunk_size, start_idx, part_index, s_files >>

\* chunk_size = math.ceil(total_rows / args.parts); start_idx = 0; the loop
\* over range(1, args.parts + 1) starts
SBegin ==
    /\ s_pc = "start"
    /\ s_rows' = ReadRows(s_input)
    /\ Len(s_input) # 0
    /\ s_parts >= 1
    /\ chunk_size' = CeilDiv(Len(s_input), s_parts)
    /\ start_idx' = 0
    /\ part_index' = 1
    /\ s_pc' = "loop"
    /\ SFrame
    /\ UNCHANGED << s_input, s_parts, s_status, s_files >>

\* one part: the file is opened, the header and the chunk are written,
\* start_idx = end_idx
SWritePart ==
    /\ s_pc = "loop"
    /\ part_index <= s_parts
    /\ \A k \in 1..Len(Chunk) : ~WriteRaises(Chunk[k])
    /\ s_files' = Append(s_files, [ part |-> part_index, lines |-> WriteRows(Chunk) ])
    /\ start_idx' = EndIdx
    /\ part_index' = part_index + 1
    /\ SFrame
    /\ UNCHANGED << s_input, s_parts, s_pc, s_status, s_rows, chunk_size >>

\* one part whose chunk holds a dict writerows raises on: the file keeps the
\* header and the lines written before it, ValueError leaves main and the
\* interpreter exits with status 1
SWriteError ==
    /\ s_pc = "loop"
    /\ part_index <= s_parts
    /\ \E k \in 1..Len(Chunk) : WriteRaises(Chunk[k])
    /\ s_files' = Append(s_files, [ part  |-> part_index,
                                    lines |-> WriteRows(WritableHead(Chunk)) ])
    /\ s_pc' = "crashed"
    /\ s_status' = 1
    /\ SFrame
    /\ UNCHANGED << s_input, s_parts, s_rows, chunk_size, start_idx, part_index >>

\* the range is exhausted: "Done splitting CSV into parts."
SDone ==
    /\ s_pc = "loop"
    /\ part_index > s_parts
    /\ s_pc' = "done"
    /\ s_status' = 0
    /\ SFrame
    /\ UNCHANGED << s_input, s_parts, s_rows, chunk_size, start_idx, part_index,
                    s_files >>

InitSplit ==
    \E lines \in InputLines, parts \in 0..MaxParts :
        /\ SStart(lines, parts, "start")
        /\ HrsStart(<< 0 >>, "idle")
        /\ RaceIdle
        /\ HIdle
        /\ DIdle

NextSplit ==
    \/ SNoRows
    \/ SBadParts
    \/ SBegin
    \/ SWritePart
    \/ SWriteError
    \/ SDone

\* split_csv.py run once
SpecSplit == InitSplit /\ [][NextSplit]_vars

(***************************************************************************)
(* Properties of the harvester (checked under SpecH)                       *)
(***************************************************************************)

\* n is the ceiling of total / lim, stated without division
IsCeil(n, total, lim) ==
    /\ n * lim >= total
    /\ (n - 1) * lim < total

\* the run is over and no request or parse failed
HEndedClean ==
    /\ h_pc = "exit"
    /\ h_requests # << >>
    /\ h_failed = 0

\* C1 as the spec states it: for every total >= 0 that page 1 reports, a run
\* without a failed fetch makes exactly ceil(total / limit) fetch attempts,
\* the case total = 0 included.
C1_AsStated ==
    HEndedClean => IsCeil(Len(h_requests), total_records, limit)

\* C1, amended: when page 1 reports total >= 1, total_pages is
\* ceil(total / limit) and a run without a failed fetch makes exactly
\* total_pages fetch attempts; when page 1 reports total = 0 the run makes
\* exactly one fetch attempt (page 1 itself), not ceil(0 / limit) = 0.
C1_FetchCount ==
    /\ total_pages # 0 => IsCeil(total_pages, total_records, limit)
    /\ HEndedClean =>
         IF total_records = 0
         THEN Len(h_requests) = 1
         ELSE /\ IsCeil(total_pages, total_records, limit)
              /\ Len(h_requests) = total_pages

\* C1 witness: a clean run over several pages whose last page is not full
C1_Witness ==
    /\ HEndedClean
    /\ total_records = 3
    /\ limit = 2
    /\ total_pages = 2
    /\ Len(h_requests) = 2

\* the rows of the first n records of the catalog, in catalog order
CatalogRows(n) == ExtractRows(SubSeq(catalog, 1, Min(n, Len(catalog))))

\* C2: when the fetch or parse of page k, 2 <= k <= total_pages, fails, no
\* page after k is ever requested (the requests are exactly 1..k), and the
\* rows written to the CSV are the rows of pages 1..k-1, in order.
C2_PartialFailure ==
    (h_failed >= 2) =>
        /\ h_failed <= total_pages
        /\ h_requests = [ k \in 1..h_failed |-> k ]
        /\ h_pc = "exit" =>
             /\ CsvFilename \in h_fs
             /\ csv_out = CatalogRows((h_failed - 1) * limit)

\* C2 witness: page 2 of 3 failed, and the CSV holds rows of page 1
C2_Witness ==
    /\ h_pc = "exit"
    /\ total_pages = 3
    /\ h_failed = 2
    /\ csv_out # << >>
    /\ Len(csv_out) < Len(CatalogRows(Len(catalog)))

\* the run was started without its preconditions: no credential, a batch
\* file that does not exist, or no query target at all
PreconditionError ==
    \/ ~api_key
    \/ args_batch = "missing"
    \/ (args_batch = "none" /\ args_naid = << >>)

\* C3 as the spec states it: a retrieval error on any page, page 1 included,
\* never ends the run as a process-level failure; only precondition errors
\* end the process with a failure status.
C3_AsStated ==
    (h_pc = "exit" /\ h_status # 0) => PreconditionError

\* the pages of the query's result that hold a record of target t
PagesOf(t) ==
    { p \in 1..CeilDiv(Len(catalog), limit) :
        \E k \in DOMAIN ServerPage(p, limit) : ServerPage(p, limit)[k].naId = t }

\* the rows of target t among a sequence of rows
RowsOfTarget(rs, t) == SelectSeq(rs, LAMBDA r : r.naId = t)

\* C4 as the spec states it: with several targets, a failure on a page that
\* holds no record of target t keeps none of t's pages from being fetched and
\* none of t's rows from the output.  It is stated for a failure inside the
\* loop over pages 2..total_pages, after which the run still writes its CSV.
C4_AsStated ==
    (h_pc = "exit" /\ h_failed >= 2) =>
        \A t \in Range(naid_list) :
            h_failed \notin PagesOf(t) =>
                /\ PagesOf(t) \subseteq Range(h_requests)
                /\ RowsOfTarget(csv_out, t)
                       = RowsOfTarget(CatalogRows(Len(catalog)), t)

\* the precondition errors of the harvester that C9 lists: no credential, or
\* a batch file that does not exist
ListedPreconditionError ==
    \/ ~api_key
    \/ args_batch = "missing"

\* C9 as the spec states it: a run that ends with a fatal precondition error
\* has issued no request and has created no directory and no file.
C9_AsStated ==
    (h_pc = "exit" /\ h_status # 0 /\ ListedPreconditionError) =>
        /\ h_requests = << >>
        /\ h_fs = h_fs0

\* page 1 was retrieved and parsed, and reported a total of zero
Page1ReportsZero ==
    /\ h_requests # << >>
    /\ h_failed # 1
    /\ Response(1).total = 0

\* C10: when page 1 reports a total of zero the run ends with exit status 0
\* after that one request: no further page is requested, no page snapshot
\* and no CSV file is written, and no row is extracted.
C10_ZeroTotal ==
    Page1ReportsZero =>
        /\ h_pc = "exit"
        /\ h_status = 0
        /\ h_requests = << 1 >>
        /\ h_fs \subseteq h_fs0 \cup { OutDir }
        /\ all_hits = << >>
        /\ extracted_rows = << >>
        /\ csv_out = << >>

\* C10 witness: a run with a credential and a target, ended by total = 0
C10_Witness ==
    /\ Page1ReportsZero
    /\ naid_list # << >>
    /\ h_pc = "exit"
    /\ h_status = 0

(***************************************************************************)
(* Properties of the downloader (checked under SpecD; C8 under SpecAlloc)   *)
(***************************************************************************)

\* the run is over, by sys.exit or by an uncaught exception
DEnded == d_pc \in { "exit", "crashed" }

\* the csv_line of the items of the first n rows that have an objectUrl
WithUrl(n) == { k \in 1..n : csv_rows[k].objectUrl # "" }

\* the csv_line of every call of download_with_progress, in order
RequestLines == [ k \in 1..Len(d_requests) |-> d_requests[k].csv_line ]

\* the members of a set of numbers in increasing order
RECURSIVE Sorted(_)
Sorted(S) ==
    IF S = {} THEN << >>
    ELSE LET m == CHOOSE x \in S : \A y \in S : x <= y
         IN  << m >> \o Sorted(S \ { m })

\* C5 as the spec states it: a run that enters the item loop ends only at
\* the summary, having taken up every item once, in input order, and having
\* made one transfer attempt for every item with a non-empty URL.
C5_AsStated ==
    (DEnded /\ target_subdir # 0) =>
        /\ d_pc = "exit"
        /\ d_status = 0
        /\ d_visited = [ k \in 1..Len(csv_rows) |-> k ]
        /\ RequestLines = Sorted(WithUrl(Len(csv_rows)))

\* the number of items whose iteration of the loop is complete
Processed == IF d_i = 0 THEN 0 ELSE d_i - 1

\* C6: between two items, downloads_attempted is the number of items taken
\* up so far that have a non-empty URL, and it is downloads_successful plus
\* the length of failed_downloads; while a transfer is under way it is one
\* more than that sum.  An item without URL changes none of the three: the
\* transfers made are those of the items with a URL, downloads_successful
\* counts the ones that returned True and failed_downloads the others.
C6_Accounting ==
    /\ RequestLines = Sorted(WithUrl(Processed))
    /\ downloads_successful = Len(SelectSeq(d_requests, LAMBDA t : t.ok))
    /\ Len(failed_downloads) = Len(SelectSeq(d_requests, LAMBDA t : ~t.ok))
    /\ d_pc # "transfer" =>
         /\ downloads_attempted = Cardinality(WithUrl(Processed))
         /\ downloads_attempted = downloads_successful + Len(failed_downloads)
    /\ d_pc = "transfer" =>
         /\ downloads_attempted = Cardinality(WithUrl(Processed)) + 1
         /\ downloads_attempted = downloads_successful + Len(failed_downloads) + 1

\* C6 witness: the scenario of the spec, rows [ok, no URL, failed]
C6_Witness ==
    /\ d_pc = "exit"
    /\ Len(csv_rows) = 3
    /\ csv_rows[2].objectUrl = ""
    /\ Len(d_requests) = 2
    /\ d_requests[1].ok /\ d_requests[1].csv_line = 1
    /\ ~d_requests[2].ok /\ d_requests[2].csv_line = 3
    /\ downloads_attempted = 2
    /\ downloads_successful = 1
    /\ Len(failed_downloads) = 1

\* the calls of download_with_progress that returned False
FailedTransfers == SelectSeq(d_requests, LAMBDA t : ~t.ok)

\* C7: failed_downloads holds one entry for each transfer that failed, in
\* the order of the failures, and nothing else; the entry is the 1-based
\* position of the item's row in the CSV and the URL of that row; the entries
\* are in strictly increasing order of row position.
C7_FailureList ==
    /\ Len(failed_downloads) = Len(FailedTransfers)
    /\ \A k \in 1..Len(failed_downloads) :
         /\ failed_downloads[k][1] \in 1..Len(csv_rows)
         /\ failed_downloads[k][2] = csv_rows[failed_downloads[k][1]].objectUrl
         /\ failed_downloads[k][1] = FailedTransfers[k].csv_line
    /\ \A j, k \in 1..Len(failed_downloads) :
         j < k => failed_downloads[j][1] < failed_downloads[k][1]

\* C7 witness: a finished run in which two items failed and one succeeded
C7_Witness ==
    /\ d_pc = "exit"
    /\ d_status = 0
    /\ Len(failed_downloads) = 2
    /\ downloads_successful = 1
    /\ failed_downloads[1][1] = 1
    /\ failed_downloads[2][1] = 3

\* C8: find_download_subdir returns YYYYMMDD-N for the least N >= 1 that did
\* not exist when the run started, creates it, and neither removes nor adds
\* any other directory (with YYYYMMDD-1..N present it returns N+1).
C8_SubdirFresh ==
    target_subdir # 0 =>
        /\ target_subdir >= 1
        /\ target_subdir \notin d_dirs0
        /\ \A n \in 1..(target_subdir - 1) : n \in d_dirs0
        /\ d_dirs = d_dirs0 \cup { target_subdir }

\* C8 witness: every number up to MaxDirs exists and the next one is made
C8_Witness ==
    /\ d_dirs0 = 1..MaxDirs
    /\ MaxDirs >= 1
    /\ target_subdir = MaxDirs + 1
    /\ target_subdir \in d_dirs

(***************************************************************************)
(* Properties of the harvester, continued (checked under SpecH)            *)
(***************************************************************************)

\* the number of pages retrieved and parsed so far
PagesRetrieved == Len(h_requests) - (IF h_failed # 0 THEN 1 ELSE 0)

\* C11 as the spec states it: the page count reported with the accumulated
\* hits after the loop is the number of pages actually retrieved, which is
\* less than total_pages when a fetch failed and the loop stopped early.
C11_AsStated ==
    (h_report.pages # -1) =>
        /\ h_report.pages = PagesRetrieved
        /\ h_failed # 0 => h_report.pages < total_pages

(***************************************************************************)
(* Properties of the downloader, continued (checked under SpecD)           *)
(***************************************************************************)

\* C12 as the docstring states it: with --test and a CSV that has data rows
\* the run does step 2 (it creates one new YYYYMMdd-N subdirectory) but
\* issues no download request and writes no file.
C12_AsStated ==
    (d_pc = "exit" /\ args_test /\ csv_ok /\ csv_rows # << >>) =>
        /\ \E n \in d_dirs : n \notin d_dirs0
        /\ d_requests = << >>
        /\ d_files = {}

\* the destination file name of the k-th call of download_with_progress
DestOf(k) == Filename(rows[d_requests[k].csv_line], d_requests[k].csv_line)

\* C13 as the spec states it (checked under SpecNames): two distinct items
\* of a run whose transfers both succeed are written to distinct destination
\* paths.  It is stated for two items with different URLs.
C13_AsStated ==
    \A j, k \in 1..Len(d_requests) :
        ( /\ j # k
          /\ d_requests[j].ok
          /\ d_requests[k].ok
          /\ d_requests[j].url # d_requests[k].url ) => DestOf(j) # DestOf(k)

--------------------------------------------------------------------------------
\* Properties of the harvester, continued (checked under SpecH)

\* the number of digitalObjects of a sequence of hits
RECURSIVE DescriptorCount(_)
DescriptorCount(hits) ==
    IF hits = << >> THEN 0
    ELSE Len(hits[1].digitalObjects) + DescriptorCount(Tail(hits))

\* the records of the first m pages of the catalog, in server order
FirstPages(m) == SubSeq(catalog, 1, Min(m * limit, Len(catalog)))

\* C14: once the rows are extracted, their number is the sum of the
\* digitalObjects counts of the accumulated hits (a hit without
\* digitalObjects gives no row); the accumulated hits are the records of the
\* retrieved pages in page order and hit order, and the j-th object of the
\* k-th hit is the row at position (objects of hits 1..k-1) + j, carrying the
\* naId and title of that hit.
C14_RowExtraction ==
    (h_report.pages # -1) =>
        /\ all_hits = FirstPages(PagesRetrieved)
        /\ Len(extracted_rows) = DescriptorCount(all_hits)
        /\ \A k \in 1..Len(all_hits) :
               \A j \in 1..Len(all_hits[k].digitalObjects) :
                   LET r == extracted_rows[
                                DescriptorCount(SubSeq(all_hits, 1, k - 1)) + j]
                   IN  /\ r.naId = all_hits[k].naId
                       /\ r.title = all_hits[k].title
                       /\ r.objectUrl = all_hits[k].digitalObjects[j].objectUrl

\* C14 witness: rows extracted from two pages, one hit without digitalObjects
\* followed by a hit with two
C14_Witness ==
    /\ h_report.pages # -1
    /\ PagesRetrieved >= 2
    /\ Len(all_hits) >= 2
    /\ all_hits[1].digitalObjects = << >>
    /\ Len(all_hits[2].digitalObjects) = 2
    /\ Len(extracted_rows) >= 2

\* the page numbers 1..n in order
Upto(n) == [ k \in 1..n |-> k ]

\* the page numbers in the names of the snapshots written, in writing order
SavedPages == [ k \in 1..Len(h_saves) |-> h_saves[k][2] ]

\* C16 as the spec states it: pages are requested in the order 1, 2, 3, ...;
\* every page retrieved and parsed is persisted exactly once, before its hits
\* are accumulated; a page whose retrieval failed is not persisted and adds
\* no hit.
C16_AsStated ==
    /\ h_requests = Upto(Len(h_requests))
    /\ h_pc # "save" => SavedPages = Upto(PagesRetrieved)
    /\ h_pc = "save" => SavedPages = Upto(PagesRetrieved - 1)
    /\ \E m \in { Len(h_saves) - 1, Len(h_saves) } :
           m >= 0 /\ all_hits = FirstPages(m)
    /\ h_failed # 0 =>
           /\ \A k \in 1..Len(h_saves) : SavedPages[k] # h_failed
           /\ Len(all_hits) <= (h_failed - 1) * limit

\* the pages that are to be persisted: those retrieved and parsed, but not a
\* page 1 that reports a total of zero
PagesToPersist == IF Page1ReportsZero THEN 0 ELSE PagesRetrieved

\* C16: pages are requested in the order 1, 2, 3, ... without gaps; every page
\* retrieved and parsed, other than a page 1 reporting total 0, is persisted
\* exactly once, before its hits are accumulated; a page whose retrieval
\* failed is not persisted and adds no hit.
C16_PageOrder ==
    /\ h_requests = Upto(Len(h_requests))
    /\ h_pc # "save" => SavedPages = Upto(PagesToPersist)
    /\ h_pc = "save" => SavedPages = Upto(PagesToPersist - 1)
    /\ \E m \in { Len(h_saves) - 1, Len(h_saves) } :
           m >= 0 /\ all_hits = FirstPages(m)
    /\ h_failed # 0 =>
           /\ \A k \in 1..Len(h_saves) : SavedPages[k] # h_failed
           /\ Len(all_hits) <= (h_failed - 1) * limit

\* C16 witness: three pages requested, the third failed, two persisted and
\* accumulated
C16_Witness ==
    /\ h_pc = "exit"
    /\ h_requests = << 1, 2, 3 >>
    /\ h_failed = 3
    /\ SavedPages = << 1, 2 >>
    /\ Len(all_hits) = 2

\* C17: once page 1 is parsed, total_pages is ceil(total of page 1 / limit)
\* for the rest of the run, whatever total a later page reports: no page
\* beyond it is requested, every snapshot name carries it as "of N", and a run
\* without a failure requests exactly that many pages.
C17_PageCountFixed ==
    (total_pages # 0) =>
        /\ IsCeil(total_pages, Response(1).total, limit)
        /\ \A k \in 1..Len(h_requests) : h_requests[k] <= total_pages
        /\ \A k \in 1..Len(h_saves) : h_saves[k][4] = total_pages
        /\ HEndedClean => Len(h_requests) = total_pages

\* C17 witness: a run of two or more pages ended without failure, whose last
\* page reported a total other than page 1's
C17_Witness ==
    /\ HEndedClean
    /\ total_pages >= 2
    /\ data.total # total_records
    /\ Len(h_saves) >= 2

\* C18 as the spec states it: a snapshot name encodes the query target, so a
\* run writes over a snapshot that the earlier harvest left only if it asks
\* for the same targets.
C18_AsStated ==
    \A k \in 1..Len(h_saves) :
        h_saves[k] \in h_fs0 => naid_list = PriorHarvest.naid_list

\* C18: a snapshot name encodes page number, total page count and date, and
\* nothing else: the k-th snapshot written is named by k, total_pages and the
\* day, the names of a run are pairwise different, and every one is a file of
\* the output directory.
C18_SnapshotNames ==
    /\ \A k \in 1..Len(h_saves) :
           /\ h_saves[k] = << "searchNaid-metadata-pg", k, "of", total_pages,
                              now_str, ".json" >>
           /\ h_saves[k] \in h_fs
    /\ \A j, k \in 1..Len(h_saves) : j # k => h_saves[j] # h_saves[k]

\* C18 witness: a run for other targets than the earlier harvest's has
\* written two snapshots, both over snapshots of the earlier harvest
C18_Witness ==
    /\ naid_list # PriorHarvest.naid_list
    /\ Len(h_saves) = 2
    /\ h_saves[1] \in h_fs0
    /\ h_saves[2] \in h_fs0

--------------------------------------------------------------------------------
\* Properties of the downloader, continued (checked under SpecD)

\* C19 as the spec states it: with a delay greater than zero, between two
\* items the run has paused once for every item handled so far, whatever its
\* outcome; with a delay of zero it never pauses.
C19_AsStated ==
    /\ (args_backoff > 0 /\ d_pc = "loop") => d_sleeps = Processed
    /\ args_backoff = 0 => d_sleeps = 0

\* C19: with a delay greater than zero the run pauses once after every call of
\* download_with_progress, whether it returned True or False, and not after
\* an item skipped for its empty URL; with a delay of zero it never pauses.
C19_BackoffAfterDownload ==
    /\ args_backoff > 0 =>
           /\ d_sleeps = Len(d_requests)
           /\ d_pc = "loop" => d_sleeps = Cardinality(WithUrl(Processed))
    /\ args_backoff = 0 => d_sleeps = 0

\* C19 witness: a run with a delay over rows [ok, no URL, failed] has ended
\* after two pauses
C19_Witness ==
    /\ d_pc = "exit"
    /\ args_backoff > 0
    /\ Len(csv_rows) = 3
    /\ csv_rows[2].objectUrl = ""
    /\ Len(d_requests) = 2
    /\ d_requests[1].ok
    /\ ~d_requests[2].ok
    /\ d_sleeps = 2

--------------------------------------------------------------------------------
\* Properties of human_readable_size (checked under SpecSize)

\* the least number of divisions by 1024 that brings float(n) below 1024
Divisions(n) == Len(FloatOf(n)) - 1

\* C15 as the spec states it: a size below 1024 is rendered as integer bytes;
\* for a size of 1024 or more the call returns normally, with the k-th of the
\* eight units, k the least number of divisions by 1024 that brings the value
\* below 1024.
C15_AsStated ==
    (hrs_pc = "done") =>
        IF ~AtLeast1024(hrs_n)
        THEN hrs_out = [ unit |-> "B", whole |-> hrs_n[1] ]
        ELSE /\ hrs_out.unit # "IndexError"
             /\ Divisions(hrs_n) <= Len(Units) =>
                    hrs_out.unit = Units[Divisions(hrs_n)]

--------------------------------------------------------------------------------
\* Properties of two racing runs (checked under SpecRace)

\* both runs have their directory
BothReturned == r_path[1] # 0 /\ r_path[2] # 0

\* C20 as the spec states it: under any interleaving of the two runs,
\* find_download_subdir does not hand the same directory to both.
C20_AsStated ==
    BothReturned => r_path[1] # r_path[2]

\* C20: find_download_subdir never returns a directory that existed when the
\* run tested for it: the directory is none of those present before the runs,
\* it exists on return, and the two runs have different directories whenever
\* one of them had made its directory by the time the other tested its name.
C20_NoReuse ==
    /\ \A r \in Runs :
           r_path[r] # 0 =>
               /\ r_path[r] \notin r_seen[r]
               /\ r_path[r] \notin r_dirs0
               /\ r_path[r] \in r_dirs
    /\ ( /\ BothReturned
         /\ r_path[1] \in r_seen[2] \/ r_path[2] \in r_seen[1] ) =>
           r_path[1] # r_path[2]

\* C20 witness: the base directory held one subdirectory; run 1 made the
\* second before run 2 tested for it, and run 2 made the third
C20_Witness ==
    /\ r_dirs0 = { 1 }
    /\ r_path = << 2, 3 >>
    /\ 2 \in r_seen[2]

--------------------------------------------------------------------------------
\* Properties of split_csv.py (checked under SpecSplit)

\* the run of split_csv.py is over
SEnded == s_pc \in { "done", "crashed" }

\* the lines of the files written, parts in writing order
WrittenLines == Flatten([ p \in 1..Len(s_files) |-> s_files[p].lines ])

\* the input line each written line came from: its first cell
WrittenIds == [ k \in 1..Len(WrittenLines) |-> WrittenLines[k][1] ]

\* the number of lines of the p-th file written
PartLen(p) == Len(s_files[p].lines)

\* C21 as the spec states it: for R >= 1 data rows and N >= 1 parts the run
\* writes exactly N files, part 1 to part N; the parts in order hold the
\* input rows 1..R, each once, none lost; and a part has ceil(R/N) rows
\* unless the rows run out in it, after which the parts are empty.
C21_AsStated ==
    (SEnded /\ Len(s_input) >= 1 /\ s_parts >= 1) =>
        /\ Len(s_files) = s_parts
        /\ \A p \in 1..Len(s_files) : s_files[p].part = p
        /\ WrittenIds = [ k \in 1..Len(s_input) |-> k ]
        /\ \A p \in 1..Len(s_files) :
               /\ IsCeil(PartLen(p), Len(s_input), s_parts)
                    \/ \A q \in (p + 1)..Len(s_files) : PartLen(q) = 0
               /\ \E c \in PartLen(p)..Len(s_input) :
                      IsCeil(c, Len(s_input), s_parts)

====
